---- MODULE Spec2Model ----
(***************************************************************************)
(* ARP-Scan device tracker (custom_components/arpscan_tracker).           *)
(*                                                                         *)
(* The model follows one config entry through setup, the periodic scan    *)
(* cycles of its DataUpdateCoordinator and the reads of its tracker       *)
(* entities.  Time is a discrete clock of seconds.  The scan interval is  *)
(* abstracted: an armed refresh timer may fire after any number of clock  *)
(* steps.                                                                  *)
(***************************************************************************)
EXTENDS Integers, Sequences, FiniteSets, TLC

\* ------------------------------------------------------------------ bounds
MaxTime == 4
MaxConsiderHome == 2
MaxAnswered == 2
MaxRoutes == 2

\* --------------------------------------------------------------- constants
None == "None"
\* datetime | None of _last_seen: no timestamp
NoTime == -1

\* hardware addresses as received (hwsrc), and their canonical lowercase form
HWADDRS == {"aa:01", "AA:01", "bb:02"}
IPS == {"10.0.0.1", "10.0.0.2"}
IFACES == {"eth0", "wlan0"}

\* mutant: the hardware address keeps its letter case
LowerKeepsCase(hw) == hw

\* str.lower() on the hardware addresses of the model
Lower(hw) == IF hw = "AA:01" THEN "aa:01" ELSE hw

MACS == {Lower(hw) : hw \in HWADDRS}

\* network of an interface as get_interface_network computes it
NetOf(iface) == IF iface = "eth0" THEN "10.0.0.0/24" ELSE "10.0.1.0/24"

\* mutant: only None counts as unset, the empty string does not
IsNotNone(s) == s # None

\* Python truthiness of an optional string
Truthy(s) == s # None /\ s # ""

VARIABLES
    now,            \* dt_util.utcnow(), seconds
    phase,          \* "setup" | "first_refresh" | "running" | "not_ready"
    scanner,        \* ArpScanner fields: _interface, _network, _resolve_hostnames, _oui
    world,          \* the OUI database and the reverse DNS the lookups consult
    consider_home,  \* entry.options[CONF_CONSIDER_HOME]
    include_list,   \* entry.options[CONF_INCLUDE]
    exclude_list,   \* entry.options[CONF_EXCLUDE]
    data,           \* coordinator.data: mac -> device
    last_update_success, \* coordinator.last_update_success
    timer,          \* the coordinator's refresh timer is armed
    inflight,       \* executions of _scan_sync running in the executor
    stored,         \* hass.data[DOMAIN][entry_id] holds the coordinator
    tracked_macs,   \* device_tracker.async_setup_entry: tracked_macs
    last_seen,      \* ArpScanDeviceTracker._last_seen, per tracked mac
    created,        \* the ArpScanDeviceTracker entities of the platform, per mac
    entry,          \* what the last config flow step returned
    ret,            \* the last operation and what it returned
    scan,           \* what the last finished scan did and returned
    seenAt,         \* history: time of the last snapshot that contained the mac
    failedSince,    \* history: only failed cycles finished since seenAt
    firstLog,       \* history: what the first cycle's scan logged, or "raised"
    lastLog         \* history: the same of the last finished cycle

vars == <<now, phase, scanner, world, consider_home, include_list, exclude_list, data,
          last_update_success, timer, inflight, stored, tracked_macs,
          last_seen, created, entry, ret, scan, seenAt, failedSince, firstLog,
          lastLog>>

\* ----------------------------------------------------------------- scanner

\* ArpScanner.interface: the configured interface, else get_default_interface()
\* (its result in this call is `detected`)
interface(sc, detected) == IF sc.iface = None THEN detected ELSE sc.iface

\* ArpScanner.network: the configured network, else the network of
\* self.interface (a second evaluation of the property)
network(sc, detected, nets) ==
    IF sc.net = None
    THEN LET iface == interface(sc, detected)
         IN IF Truthy(iface) THEN nets[iface] ELSE None
    ELSE sc.net

\* ArpScanner._lookup_vendor; `raw` is what OuiLookup.query does for the mac:
\* "raise", "empty" (no match), or the vendor string of the first match
lookup_vendor(sc, raw) ==
    IF ~sc.oui THEN None
    ELSE IF raw = "raise" THEN None
    ELSE IF raw = "empty" THEN None
    ELSE raw

\* mutant: the hyphens of the first label are kept
DashKept(label) == label

\* str.replace("-", ".") on the first labels of the model's host names
DashToDot(label) ==
    IF label = "10-0-0-1" THEN "10.0.0.1"
    ELSE IF label = "10-0-0-2" THEN "10.0.0.2"
    ELSE label

\* the names socket.gethostbyaddr may return: <<first label, rest>>, rest ""
\* when the name has no dot; hostname is first label + rest
HOSTNAMES == {<<"nas", "">>, <<"nas", ".lan">>, <<"10-0-0-1", ".isp.net">>,
              <<"10-0-0-2", "">>}

FullName(h) ==
    IF h = <<"nas", "">> THEN "nas"
    ELSE IF h = <<"nas", ".lan">> THEN "nas.lan"
    ELSE IF h = <<"10-0-0-1", ".isp.net">> THEN "10-0-0-1.isp.net"
    ELSE "10-0-0-2"

\* gethostbyaddr raised socket.herror, socket.gaierror or OSError
HostError == <<>>

\* mutant: a failed lookup falls back to the address
HostnameOrAddress(ip, raw) == IF raw = HostError THEN ip ELSE FullName(raw)

\* ArpScanner._lookup_hostname; `raw` is HostError when gethostbyaddr raises,
\* else the resolved name
lookup_hostname(ip, raw) ==
    IF raw = HostError THEN None
    ELSE IF raw[2] # ""
         THEN LET short_name == raw[1]
              IN IF DashToDot(short_name) = ip THEN FullName(raw)
                 ELSE short_name
         ELSE FullName(raw)

\* mutant: the vendor is stored as looked up
VendorAsLookedUp(vendor) == vendor

\* vendor or "Unknown"
VendorOrUnknown(vendor) == IF Truthy(vendor) THEN vendor ELSE "Unknown"

\* mutant: every response yields a device, duplicates too
ParseEveryResponse(sc, w, answered, i, seen_macs) ==
    [j \in 1..Len(answered) |->
        LET mac == Lower(answered[j].hwsrc)
            ip == answered[j].psrc
        IN [ip |-> ip, mac |-> mac,
            vendor |-> IF sc.oui /\ Truthy(lookup_vendor(sc, w.vendor[mac]))
                       THEN lookup_vendor(sc, w.vendor[mac]) ELSE "Unknown",
            hostname |-> IF sc.resolve_hostnames
                         THEN lookup_hostname(ip, w.host[ip]) ELSE None]]

\* the response loop of _scan_sync over answered[i..], with seen_macs
RECURSIVE ParseResponses(_, _, _, _, _)
ParseResponses(sc, w, answered, i, seen_macs) ==
    IF i > Len(answered) THEN <<>>
    ELSE LET mac == Lower(answered[i].hwsrc)
             ip == answered[i].psrc
         IN IF mac \in seen_macs
            THEN ParseResponses(sc, w, answered, i + 1, seen_macs)
            ELSE LET vendor == IF sc.oui THEN lookup_vendor(sc, w.vendor[mac])
                               ELSE None
                     hostname == IF sc.resolve_hostnames
                                 THEN lookup_hostname(ip, w.host[ip])
                                 ELSE None
                 IN <<[ip |-> ip, mac |-> mac,
                       vendor |-> VendorOrUnknown(vendor),
                       hostname |-> hostname]>>
                    \o ParseResponses(sc, w, answered, i + 1,
                                      seen_macs \cup {mac})

\* mutant: the PermissionError of srp leaves _scan_sync
PermissionErrorPropagates == [raised |-> TRUE, devices |-> <<>>, sent |-> TRUE,
                              log |-> "PermissionDenied"]

\* what _scan_sync does when srp raises PermissionError
OnPermissionError == [raised |-> FALSE, devices |-> <<>>, sent |-> TRUE,
                      log |-> "PermissionDenied"]

\* what _scan_sync does when no interface is available
OnNoInterface == [raised |-> FALSE, devices |-> <<>>, sent |-> FALSE,
                  log |-> "TargetUnresolved"]

\* ArpScanner._scan_sync.  env: detect1, detect2 (the two calls of
\* get_default_interface), nets (get_interface_network), pkt (building the
\* request: "ok" | "raise"), srp ("ok" | "PermissionError" | "Exception"),
\* answered; w: the lookups' vendor and host tables.  The result: whether an exception left the
\* function, the returned list, whether srp was called, what was logged.
scan_sync(sc, w, env) ==
    LET iface == interface(sc, env.detect1)
        net == network(sc, env.detect2, env.nets)
    IN IF ~Truthy(iface) THEN OnNoInterface
       ELSE IF ~Truthy(net)
       THEN [raised |-> FALSE, devices |-> <<>>, sent |-> FALSE,
             log |-> "TargetUnresolved"]
       ELSE IF env.pkt = "raise"
       THEN [raised |-> TRUE, devices |-> <<>>, sent |-> FALSE,
             log |-> "none"]
       ELSE IF env.srp = "PermissionError" THEN OnPermissionError
       ELSE IF env.srp = "Exception"
       THEN [raised |-> FALSE, devices |-> <<>>, sent |-> TRUE,
             log |-> "ProbeFailed"]
       ELSE [raised |-> FALSE,
             devices |-> ParseResponses(sc, w, env.answered, 1, {}),
             sent |-> TRUE, log |-> "none"]

\* the addresses the response loop of _scan_sync calls _lookup_hostname
\* for, over answered[i..], with seen_macs
RECURSIVE HostLookups(_, _, _, _)
HostLookups(sc, answered, i, seen_macs) ==
    IF i > Len(answered) THEN <<>>
    ELSE LET mac == Lower(answered[i].hwsrc)
             ip == answered[i].psrc
         IN IF mac \in seen_macs
            THEN HostLookups(sc, answered, i + 1, seen_macs)
            ELSE (IF sc.resolve_hostnames THEN <<ip>> ELSE <<>>)
                 \o HostLookups(sc, answered, i + 1, seen_macs \cup {mac})

\* the calls of _lookup_hostname of one execution of _scan_sync: those of
\* the response loop, when the execution gets there
scan_lookups(sc, w, env) ==
    IF Len(scan_sync(sc, w, env).devices) = 0 THEN <<>>
    ELSE HostLookups(sc, env.answered, 1, {})

\* --------------------------------------------------------- the environment

Responses == [hwsrc : HWADDRS, psrc : IPS]

\* the answered lists of srp, in the order received
AnsweredSeqs == UNION {[1..n -> Responses] : n \in 0..MaxAnswered}

\* get_interface_network: every interface has its network, or none has
NetTables == {[i \in IFACES |-> NetOf(i)], [i \in IFACES |-> None]}

\* OuiLookup.query for a mac: "raise", "empty" (no match), or the vendor
VendorTables == {[m \in MACS |-> v] : v \in {"raise", "empty", "", "Acme"}}

\* socket.gethostbyaddr for an ip: an error or the resolved name
HostTables == {[i \in IPS |-> h] : h \in {HostError} \cup HOSTNAMES}

Worlds == [vendor : VendorTables, host : HostTables]

\* what the system does around one execution of _scan_sync; nothing is
\* answered when the request is not sent
ScanEnvs ==
    {e \in [detect1 : IFACES \cup {None}, detect2 : IFACES \cup {None},
            nets : NetTables, pkt : {"ok", "raise"},
            srp : {"ok", "PermissionError", "Exception"},
            answered : AnsweredSeqs] :
        (e.pkt = "raise" \/ e.srp # "ok") => e.answered = <<>>}

\* the answered lists of the entry's cycles: one host, which answers at most
\* once, from either address and in either letter case
EntryAnswered ==
    {a \in AnsweredSeqs :
        Len(a) <= 1 /\ \A i \in DOMAIN a : Lower(a[i].hwsrc) = "aa:01"}

\* the environments of a configured entry: the interface and the network
\* are set, so the resolver is not consulted
EntryEnvs ==
    {e \in ScanEnvs : /\ e.detect1 = "eth0" /\ e.detect2 = "eth0"
                      /\ e.nets = [i \in IFACES |-> NetOf(i)]
                      /\ e.answered \in EntryAnswered}

\* ------------------------------------------------------------- coordinator

\* mutant: the exclude list is applied to included devices too
KeptUnlessExcluded(device, include, exclude) ==
    /\ include # {} => device.ip \in include
    /\ device.ip \notin exclude

\* the include/exclude filter of async_update_data for one device
Kept(device, include, exclude) ==
    IF include # {} THEN device.ip \in include
    ELSE ~(exclude # {} /\ device.ip \in exclude)

\* mutant: the loop leaves out the device at i and starts after it
FilterLoopFromSecond(devices, i, include, exclude, result) ==
    LET kept == {j \in (i + 1)..Len(devices) :
                    Kept(devices[j], include, exclude)}
    IN [m \in DOMAIN result \cup {devices[j].mac : j \in kept} |->
           IF \E j \in kept : devices[j].mac = m
           THEN devices[CHOOSE j \in kept : devices[j].mac = m]
           ELSE result[m]]

\* the loop of async_update_data over devices[i..], updating result
RECURSIVE FilterLoop(_, _, _, _, _)
FilterLoop(devices, i, include, exclude, result) ==
    IF i > Len(devices) THEN result
    ELSE LET device == devices[i]
             mac == device.mac
         IN IF Kept(device, include, exclude)
            THEN FilterLoop(devices, i + 1, include, exclude,
                            [m \in DOMAIN result \cup {mac} |->
                                IF m = mac THEN device ELSE result[m]])
            ELSE FilterLoop(devices, i + 1, include, exclude, result)

EmptyData == [m \in {} |-> None]

\* async_update_data: UpdateFailed when the scan raised, else the filtered
\* mapping mac -> device
async_update_data(res, include, exclude) ==
    IF res.raised THEN [failed |-> TRUE, result |-> EmptyData]
    ELSE [failed |-> FALSE,
          result |-> FilterLoop(res.devices, 1, include, exclude, EmptyData)]

\* DataUpdateCoordinator: the data after a refresh; a failed update keeps
\* the previous data
DataAfterRefresh(upd, previous) == IF upd.failed THEN previous ELSE upd.result

\* DataUpdateCoordinator: listeners are called after a refresh unless this
\* update and the previous one both failed
ListenersCalled(upd, previous_success) == ~upd.failed \/ previous_success

\* mutant: the next refresh is scheduled only after a successful update
TimerOnlyAfterSuccess(upd) == ~upd.failed

\* DataUpdateCoordinator: the refresh timer after a refresh finished (the
\* next refresh is scheduled whether or not the update failed)
TimerAfterRefresh(upd) == TRUE

\* mutant: a periodic timer that stays armed while the refresh runs
TimerStaysArmed == TRUE

\* DataUpdateCoordinator: the refresh timer after it fired (it is one-shot,
\* and armed again only when the refresh has finished)
TimerAfterFire == FALSE

\* async_config_entry_first_refresh raises ConfigEntryNotReady exactly when
\* the first update failed
FirstRefreshAborts(upd) == upd.failed

\* ------------------------------------------------------------------ entity

\* mutant: neither the constructor nor _handle_coordinator_update sets
\* _last_seen
SeenLeftUnset(mac, d, t, previous) == previous

\* mutant: _last_seen is set when the entity is created and not by
\* _handle_coordinator_update
SeenOnlyWhenCreated(mac, d, t, previous) ==
    IF mac \in DOMAIN d /\ previous = NoTime THEN t ELSE previous

\* ArpScanDeviceTracker.__init__ and _handle_coordinator_update: the new
\* _last_seen of the entity of mac, given coordinator.data
SeenOnUpdate(mac, d, t, previous) == IF mac \in DOMAIN d THEN t ELSE previous

\* ArpScanDeviceTracker.__init__: the key the entity created for the
\* snapshot key mac looks its device up under
EntityKey(mac) == Lower(mac)

\* async_add_new_entities: the macs an entity is created for
NewEntities(d, tracked) == {m \in DOMAIN d : m \notin tracked}

\* async_add_new_entities: the entities of the platform after the call
CreatedAfter(d, tracked, count) ==
    [m \in MACS |-> IF m \in NewEntities(d, tracked) THEN count[m] + 1
                    ELSE count[m]]

\* async_add_new_entities: the macs tracked after an update
TrackedAfter(d, tracked) == tracked \cup DOMAIN d

\* mutant: the window excludes its boundary
is_connected_strict(mac, d, seen, t, window) ==
    IF mac \in DOMAIN d THEN TRUE
    ELSE IF seen # NoTime
         THEN IF t - seen < window THEN TRUE ELSE FALSE
         ELSE FALSE

\* ArpScanDeviceTracker.is_connected: the returned value
is_connected(mac, d, seen, t, window) ==
    IF mac \in DOMAIN d THEN TRUE
    ELSE IF seen # NoTime
         THEN IF t - seen <= window THEN TRUE ELSE FALSE
         ELSE FALSE

\* mutant: a read of a mac that is not in the data clears _last_seen
SeenOnReadClears(mac, d, seen, t) == IF mac \in DOMAIN d THEN t ELSE NoTime

\* ArpScanDeviceTracker.is_connected: _last_seen after the call
SeenOnRead(mac, d, seen, t) == IF mac \in DOMAIN d THEN t ELSE seen

\* ------------------------------------------------------------------- Init

NoScan == [res |-> [raised |-> FALSE, devices |-> <<>>, sent |-> FALSE,
                    log |-> "none"],
           probe |-> [detect1 |-> None, detect2 |-> None,
                      nets |-> [i \in IFACES |-> None], pkt |-> "none",
                      srp |-> "none"]]
NoRet == [op |-> "none", mac |-> None, val |-> FALSE, before |-> NoTime]

\* no config flow step has returned
NoEntry == [type |-> "none"]

\* the exclude lists of the entry's options
ExcludeLists == {{}, {"10.0.0.2"}}

EntryScanner == [iface |-> "eth0", net |-> NetOf("eth0"),
                 resolve_hostnames |-> TRUE, oui |-> TRUE]

Init ==
    /\ now = 0
    /\ phase = "setup"
    /\ scanner = EntryScanner
    /\ world = [vendor |-> [m \in MACS |-> "empty"],
                host |-> [i \in IPS |-> HostError]]
    /\ consider_home \in 1..MaxConsiderHome
    /\ include_list = {}
    /\ exclude_list \in ExcludeLists
    /\ data = EmptyData
    /\ last_update_success = TRUE
    /\ timer = FALSE
    /\ inflight = 0
    /\ stored = FALSE
    /\ tracked_macs = {}
    /\ last_seen = [m \in MACS |-> NoTime]
    /\ created = [m \in MACS |-> 0]
    /\ entry = NoEntry
    /\ ret = NoRet
    /\ scan = NoScan
    /\ seenAt = [m \in MACS |-> NoTime]
    /\ failedSince = [m \in MACS |-> "none"]
    /\ firstLog = "none"
    /\ lastLog = "none"

config == <<scanner, world, consider_home, include_list, exclude_list, entry>>

\* ---------------------------------------------------------------- actions

\* the clock advances
Tick ==
    /\ now < MaxTime
    /\ now' = now + 1
    /\ ret' = NoRet
    /\ UNCHANGED <<phase, config, data, last_update_success, timer, inflight,
                   stored, tracked_macs, created, last_seen, scan, seenAt,
                   failedSince, firstLog, lastLog>>

\* async_setup_entry up to the await of the first refresh: the scan is
\* handed to the executor
SetupEntry ==
    /\ phase = "setup"
    /\ phase' = "first_refresh"
    /\ inflight' = inflight + 1
    /\ ret' = NoRet
    /\ UNCHANGED <<now, config, data, last_update_success, timer, stored,
                   tracked_macs, created, last_seen, scan, seenAt, failedSince,
                   firstLog, lastLog>>

\* a cycle is failed when the scan raised or logged a probe failure
CycleFailed(res) == res.raised \/ res.log # "none"

\* what a finished cycle's scan logged, "raised" when it raised
LogOf(res) == IF res.raised THEN "raised" ELSE res.log

\* history of one finished cycle, for the mac m
SeenAtAfter(m, upd, t, previous) ==
    IF ~upd.failed /\ m \in DOMAIN upd.result THEN t ELSE previous

FailedSinceAfter(m, res, upd, previous) ==
    IF ~upd.failed /\ m \in DOMAIN upd.result THEN "none"
    ELSE IF CycleFailed(res) THEN (IF previous = "mixed" THEN "mixed" ELSE "failed")
    ELSE "mixed"

\* the first refresh finishes: async_setup_entry either aborts with
\* ConfigEntryNotReady or stores the coordinator and sets up the platform,
\* whose async_setup_entry adds the entities of the initial data and
\* registers the listener (which arms the refresh timer)
FinishFirstRefresh(env) ==
    /\ phase = "first_refresh"
    /\ LET res == scan_sync(scanner, world, env)
           upd == async_update_data(res, include_list, exclude_list)
       IN /\ firstLog' = LogOf(res)
          /\ lastLog' = LogOf(res)
          /\ inflight' = inflight - 1
          /\ last_update_success' = ~upd.failed
          /\ ret' = NoRet
          /\ seenAt' = [m \in MACS |-> SeenAtAfter(m, upd, now, seenAt[m])]
          /\ failedSince' = [m \in MACS |->
                                FailedSinceAfter(m, res, upd, failedSince[m])]
          /\ IF FirstRefreshAborts(upd)
             THEN /\ phase' = "not_ready"
                  /\ UNCHANGED <<data, timer, stored, tracked_macs, created, last_seen>>
             ELSE /\ phase' = "running"
                  /\ data' = upd.result
                  /\ stored' = TRUE
                  /\ timer' = TRUE
                  /\ tracked_macs' = TrackedAfter(upd.result, tracked_macs)
                  /\ created' = CreatedAfter(upd.result, tracked_macs, created)
                  /\ last_seen' = [m \in MACS |->
                        IF m \in TrackedAfter(upd.result, tracked_macs)
                        THEN SeenOnUpdate(m, upd.result, now, last_seen[m])
                        ELSE last_seen[m]]
    /\ UNCHANGED <<now, config, scan>>

\* the refresh timer fires: the coordinator starts a refresh, whose scan
\* runs in the executor
TimerFire ==
    /\ phase = "running"
    /\ timer
    /\ timer' = TimerAfterFire
    /\ inflight' = inflight + 1
    /\ ret' = NoRet
    /\ UNCHANGED <<now, phase, config, data, last_update_success, stored,
                   tracked_macs, created, last_seen, scan, seenAt, failedSince,
                   firstLog, lastLog>>

\* a scheduled refresh finishes: the coordinator takes the result of
\* async_update_data, calls its listeners (async_add_new_entities and each
\* entity's _handle_coordinator_update) and schedules the next refresh
FinishRefresh(env) ==
    /\ phase = "running"
    /\ inflight > 0
    /\ LET res == scan_sync(scanner, world, env)
           upd == async_update_data(res, include_list, exclude_list)
           d == DataAfterRefresh(upd, data)
           called == ListenersCalled(upd, last_update_success)
       IN /\ lastLog' = LogOf(res)
          /\ inflight' = inflight - 1
          /\ data' = d
          /\ last_update_success' = ~upd.failed
          /\ timer' = (timer \/ TimerAfterRefresh(upd))
          /\ ret' = NoRet
          /\ seenAt' = [m \in MACS |-> SeenAtAfter(m, upd, now, seenAt[m])]
          /\ failedSince' = [m \in MACS |->
                                FailedSinceAfter(m, res, upd, failedSince[m])]
          /\ IF called
             THEN /\ tracked_macs' = TrackedAfter(d, tracked_macs)
                  /\ created' = CreatedAfter(d, tracked_macs, created)
                  /\ last_seen' = [m \in MACS |->
                        IF m \in TrackedAfter(d, tracked_macs)
                        THEN SeenOnUpdate(m, d, now, last_seen[m])
                        ELSE last_seen[m]]
             ELSE UNCHANGED <<tracked_macs, created, last_seen>>
    /\ UNCHANGED <<now, phase, config, stored, scan, firstLog>>

\* a read of ArpScanDeviceTracker.is_connected of the entity of mac
IsConnected(mac) ==
    /\ phase = "running"
    /\ mac \in tracked_macs
    /\ ret' = [op |-> "is_connected", mac |-> mac,
               val |-> is_connected(mac, data, last_seen[mac], now, consider_home),
               before |-> last_seen[mac]]
    /\ last_seen' = [last_seen EXCEPT
                        ![mac] = SeenOnRead(mac, data, last_seen[mac], now)]
    /\ UNCHANGED <<now, phase, config, data, last_update_success, timer,
                   inflight, stored, tracked_macs, created, scan, seenAt, failedSince,
                   firstLog, lastLog>>

\* a read of ArpScanDeviceTracker.extra_state_attributes: last_seen is
\* reported when set, nothing is written
ExtraStateAttributes(mac) ==
    /\ phase = "running"
    /\ mac \in tracked_macs
    /\ ret' = [op |-> "extra_state_attributes", mac |-> mac,
               val |-> (last_seen[mac] # NoTime), before |-> last_seen[mac]]
    /\ UNCHANGED <<now, phase, config, data, last_update_success, timer,
                   inflight, stored, tracked_macs, created, last_seen, scan, seenAt,
                   failedSince, firstLog, lastLog>>

\* the options flow stored new options: async_options_update_listener
\* reloads the entry.  async_unload_entry unloads the platform, whose
\* entities and tracked_macs go with it, and pops hass.data; async_setup_entry
\* then starts over with a new scanner and a new coordinator.  inflight
\* counts the executions of the entry's current scanner: one the unloaded
\* scanner still runs in the executor is no longer the entry's
OptionsUpdate(window, exclude) ==
    /\ phase = "running"
    /\ phase' = "setup"
    /\ consider_home' = window
    /\ exclude_list' = exclude
    /\ data' = EmptyData
    /\ last_update_success' = TRUE
    /\ timer' = FALSE
    /\ inflight' = 0
    /\ stored' = FALSE
    /\ tracked_macs' = {}
    /\ created' = [m \in MACS |-> 0]
    /\ last_seen' = [m \in MACS |-> NoTime]
    /\ ret' = NoRet
    /\ UNCHANGED <<now, scanner, world, include_list, entry, scan, seenAt,
                   failedSince, firstLog, lastLog>>

\* async_setup_entry is tried again after ConfigEntryNotReady
RetrySetup ==
    /\ phase = "not_ready"
    /\ phase' = "setup"
    /\ ret' = NoRet
    /\ UNCHANGED <<now, config, data, last_update_success, timer, inflight,
                   stored, tracked_macs, created, last_seen, scan, seenAt, failedSince,
                   firstLog, lastLog>>

Next ==
    \/ Tick
    \/ SetupEntry
    \/ \E env \in EntryEnvs : FinishFirstRefresh(env)
    \/ TimerFire
    \/ \E env \in EntryEnvs : FinishRefresh(env)
    \/ \E mac \in MACS : IsConnected(mac)
    \/ \E mac \in MACS : ExtraStateAttributes(mac)
    \/ RetrySetup
    \/ \E window \in 1..MaxConsiderHome, exclude \in ExcludeLists :
          OptionsUpdate(window, exclude)

Spec == Init /\ [][Next]_vars

\* the scheduling of the event loop: an armed refresh timer fires, and the
\* reload of an options update goes on to set the entry up
FairSpec == Spec /\ WF_vars(TimerFire) /\ WF_vars(SetupEntry)

\* ------------------------------------------------- the scanner on its own

\* the scanners ArpScanner.__init__ can build
Scanners == [iface : {None, "eth0"}, net : {None, "10.0.0.0/24"},
             resolve_hostnames : BOOLEAN, oui : BOOLEAN]

InitScan ==
    /\ now = 0
    /\ phase = "setup"
    /\ scanner \in Scanners
    /\ world \in Worlds
    /\ consider_home = 1
    /\ include_list = {}
    /\ exclude_list = {}
    /\ data = EmptyData
    /\ last_update_success = TRUE
    /\ timer = FALSE
    /\ inflight = 0
    /\ stored = FALSE
    /\ tracked_macs = {}
    /\ last_seen = [m \in MACS |-> NoTime]
    /\ created = [m \in MACS |-> 0]
    /\ entry = NoEntry
    /\ ret = NoRet
    /\ scan = NoScan
    /\ seenAt = [m \in MACS |-> NoTime]
    /\ failedSince = [m \in MACS |-> "none"]
    /\ firstLog = "none"
    /\ lastLog = "none"

\* the calls of the resolver in one execution of _scan_sync: the interface
\* property calls get_default_interface when no interface is configured;
\* the network property, when no network is configured, evaluates the
\* interface property again and calls get_interface_network for its result
resolver_calls(sc, env) ==
    LET again == interface(sc, env.detect2)
    IN [detect |-> (IF sc.iface = None THEN 1 ELSE 0)
                   + (IF sc.net = None /\ sc.iface = None THEN 1 ELSE 0),
        nets |-> IF sc.net = None /\ Truthy(again) THEN 1 ELSE 0]

\* one execution of ArpScanner._scan_sync (through async_scan); the scanner
\* keeps nothing from one execution to the next, so a behaviour is one
\* execution
AsyncScan(env) ==
    /\ scan = NoScan
    /\ scan' = [res |-> scan_sync(scanner, world, env),
                probe |-> [detect1 |-> env.detect1, detect2 |-> env.detect2,
                           nets |-> env.nets, pkt |-> env.pkt,
                           srp |-> env.srp],
                target |-> [iface |-> interface(scanner, env.detect1),
                            net |-> network(scanner, env.detect2, env.nets)],
                calls |-> resolver_calls(scanner, env)]
    /\ UNCHANGED <<now, phase, config, data, last_update_success, timer,
                   inflight, stored, tracked_macs, created, last_seen, ret, seenAt,
                   failedSince, firstLog, lastLog>>

NextScan == \E env \in ScanEnvs : AsyncScan(env)

ScanSpec == InitScan /\ [][NextScan]_vars

\* ----------------------------------------- async_update_data on its own

\* the state before anything of the integration ran, the configuration
\* aside
NothingLoaded ==
    /\ now = 0
    /\ phase = "setup"
    /\ data = EmptyData
    /\ last_update_success = TRUE
    /\ timer = FALSE
    /\ inflight = 0
    /\ stored = FALSE
    /\ tracked_macs = {}
    /\ last_seen = [m \in MACS |-> NoTime]
    /\ created = [m \in MACS |-> 0]
    /\ entry = NoEntry
    /\ ret = NoRet
    /\ scan = NoScan
    /\ seenAt = [m \in MACS |-> NoTime]
    /\ failedSince = [m \in MACS |-> "none"]
    /\ firstLog = "none"
    /\ lastLog = "none"

\* the strings of an include or exclude list: what the user typed, IP
\* addresses or, by mistake, a hardware address
FilterItems == IPS \cup {"aa:01"}

InitUpdate ==
    /\ NothingLoaded
    /\ scanner = EntryScanner
    /\ world = [vendor |-> [m \in MACS |-> "empty"],
                host |-> [i \in IPS |-> HostError]]
    /\ consider_home = 1
    /\ include_list \in SUBSET FilterItems
    /\ exclude_list \in SUBSET FilterItems

\* the environments of one cycle of a configured entry, any answered list
UpdateEnvs ==
    {e \in ScanEnvs : /\ e.detect1 = "eth0" /\ e.detect2 = "eth0"
                      /\ e.nets = [i \in IFACES |-> NetOf(i)]}

\* one call of async_update_data: the scan, then the filter; the returned
\* mapping becomes coordinator.data unless UpdateFailed is raised
UpdateData(env) ==
    /\ scan = NoScan
    /\ LET res == scan_sync(scanner, world, env)
           upd == async_update_data(res, include_list, exclude_list)
       IN /\ scan' = [res |-> res,
                      probe |-> [detect1 |-> env.detect1,
                                 detect2 |-> env.detect2, nets |-> env.nets,
                                 pkt |-> env.pkt, srp |-> env.srp,
                                 answered |-> env.answered],
                      lookups |-> scan_lookups(scanner, world, env)]
          /\ data' = DataAfterRefresh(upd, data)
          /\ last_update_success' = ~upd.failed
    /\ UNCHANGED <<now, phase, config, timer, inflight, stored, tracked_macs,
                   created, last_seen, ret, seenAt, failedSince, firstLog,
                   lastLog>>

\* the scanners of a configured entry
ConfiguredScanners ==
    {sc \in Scanners : sc.iface = "eth0" /\ sc.net = NetOf("eth0")}

\* one cycle of an entry without include and exclude lists, for every
\* scanner setting and every behaviour of the lookups
InitProbe ==
    /\ NothingLoaded
    /\ scanner \in ConfiguredScanners
    /\ world \in Worlds
    /\ consider_home = 1
    /\ include_list = {}
    /\ exclude_list = {}

NextProbe == \E env \in UpdateEnvs : UpdateData(env)

ProbeSpec == InitProbe /\ [][NextProbe]_vars

\* the devices of a snapshot as a list, in the order `order` of its keys
DeviceList(d, order) == [i \in DOMAIN order |-> d[order[i]]]

\* the orders in which the keys of a snapshot can be listed
KeyOrders(d) ==
    {o \in [1..Cardinality(DOMAIN d) -> DOMAIN d] :
        \A i, j \in DOMAIN o : o[i] = o[j] => i = j}

\* the filter of async_update_data applied once more, to the devices of the
\* snapshot it returned, with the same lists
Refilter(order) ==
    /\ scan # NoScan
    /\ last_update_success
    /\ ret = NoRet
    /\ ret' = [op |-> "async_update_data", mac |-> None,
               val |-> FilterLoop(DeviceList(data, order), 1, include_list,
                                  exclude_list, EmptyData),
               before |-> NoTime]
    /\ UNCHANGED <<now, phase, config, data, last_update_success, timer,
                   inflight, stored, tracked_macs, created, last_seen, scan,
                   seenAt, failedSince, firstLog, lastLog>>

NextUpdate ==
    \/ \E env \in UpdateEnvs : UpdateData(env)
    \/ \E order \in KeyOrders(data) : Refilter(order)

UpdateSpec == InitUpdate /\ [][NextUpdate]_vars

\* ------------------------------------------------ get_default_interface

\* the first line of /proc/net/route
RouteHeader == <<"Iface", "Destination">>

\* the lines of /proc/net/route after the header, split at white space: an
\* empty line, a line of one part, a route to a network, default routes
RouteLines == {<<>>, <<"eth0">>, <<"eth0", "0000A8C0">>,
               <<"eth0", "00000000">>, <<"wlan0", "00000000">>}

\* what open("/proc/net/route") and readlines() give: OSError, an empty
\* file, or the header and up to MaxRoutes lines
RouteTables ==
    {[readable |-> FALSE, lines |-> <<>>], [readable |-> TRUE, lines |-> <<>>]}
    \cup {[readable |-> TRUE, lines |-> <<RouteHeader>> \o rows] :
             rows \in UNION {[1..n -> RouteLines] : n \in 0..MaxRoutes}}

\* the interface names get_default_interface falls back to, in its order
FallbackNames == <<"eth0", "ens18", "enp0s3", "wlan0">>

\* the names with a directory under /sys/class/net
ExistingSets == SUBSET {FallbackNames[i] : i \in DOMAIN FallbackNames}

\* the loop of get_default_interface over the lines i.. of the table
RECURSIVE RouteLoop(_, _)
RouteLoop(lines, i) ==
    IF i > Len(lines) THEN None
    ELSE LET parts == lines[i]
         IN IF Len(parts) >= 2 /\ parts[2] = "00000000" THEN parts[1]
            ELSE RouteLoop(lines, i + 1)

\* mutant: the fallback names are tried from the last to the first
RECURSIVE FallbackFromLast(_, _)
FallbackFromLast(i, existing) ==
    LET k == Len(FallbackNames) + 1 - i
    IN IF i > Len(FallbackNames) THEN None
       ELSE IF FallbackNames[k] \in existing THEN FallbackNames[k]
       ELSE FallbackFromLast(i + 1, existing)

\* the fallback loop of get_default_interface over the names i..
RECURSIVE FallbackLoop(_, _)
FallbackLoop(i, existing) ==
    IF i > Len(FallbackNames) THEN None
    ELSE IF FallbackNames[i] \in existing THEN FallbackNames[i]
    ELSE FallbackLoop(i + 1, existing)

\* get_default_interface: the lines after the first are searched when the
\* table can be read (an OSError is caught), then the fallback names
get_default_interface(table, existing) ==
    LET found == IF table.readable THEN RouteLoop(table.lines, 2) ELSE None
    IN IF found # None THEN found ELSE FallbackLoop(1, existing)

InitDetect ==
    /\ NothingLoaded
    /\ scanner = EntryScanner
    /\ world = [vendor |-> [m \in MACS |-> "empty"],
                host |-> [i \in IPS |-> HostError]]
    /\ consider_home = 1
    /\ include_list = {}
    /\ exclude_list = {}

\* one call of get_default_interface
GetDefaultInterface(table, existing) ==
    /\ ret = NoRet
    /\ ret' = [op |-> "get_default_interface", table |-> table,
               existing |-> existing,
               val |-> get_default_interface(table, existing)]
    /\ UNCHANGED <<now, phase, config, data, last_update_success, timer,
                   inflight, stored, tracked_macs, created, last_seen, scan,
                   seenAt, failedSince, firstLog, lastLog>>

NextDetect ==
    \E table \in RouteTables, existing \in ExistingSets :
        GetDefaultInterface(table, existing)

DetectSpec == InitDetect /\ [][NextDetect]_vars

\* ---------------------------------------------------------- config flow

\* the defaults of const.py and the ranges of the forms' schemas; a
\* timeout is in tenths of a second
DEFAULT_SCAN_INTERVAL == 15
DEFAULT_CONSIDER_HOME == 180
DEFAULT_TIMEOUT == 10
ScanIntervalMin == 5
ScanIntervalMax == 300
ConsiderHomeMin == 10
ConsiderHomeMax == 600
TimeoutMin == 5
TimeoutMax == 100

\* the numbers a user can type or write to YAML: the defaults and the
\* values at and next to the ends of the ranges
ScanIntervals == {ScanIntervalMin - 1, ScanIntervalMin, DEFAULT_SCAN_INTERVAL,
                  ScanIntervalMax, ScanIntervalMax + 1}
ConsiderHomes == {ConsiderHomeMin - 1, ConsiderHomeMin, DEFAULT_CONSIDER_HOME,
                  ConsiderHomeMax, ConsiderHomeMax + 1}
Timeouts == {TimeoutMin - 1, TimeoutMin, DEFAULT_TIMEOUT, TimeoutMax,
             TimeoutMax + 1}

\* vol.Range(min, max) of the forms' schemas
InRange(v, min, max) == min <= v /\ v <= max

\* the numeric part of the data_schema of the user form and of the options
\* form: the flow manager hands a step only input that passes the schema
\* of the form it was typed into
SchemaAccepts(user_input) ==
    /\ InRange(user_input.scan_interval, ScanIntervalMin, ScanIntervalMax)
    /\ InRange(user_input.consider_home, ConsiderHomeMin, ConsiderHomeMax)
    /\ InRange(user_input.timeout, TimeoutMin, TimeoutMax)

\* the input of the user form: network is "" when left empty; the schema
\* has filled in the defaults of the optional numbers
UserInputs ==
    {u \in [interface : IFACES, network : {"", NetOf("eth0")},
            scan_interval : ScanIntervals, consider_home : ConsiderHomes,
            timeout : Timeouts] : SchemaAccepts(u)}

\* the input of the options form
OptionsInputs ==
    {u \in [scan_interval : ScanIntervals, consider_home : ConsiderHomes,
            timeout : Timeouts] : SchemaAccepts(u)}

\* the parts of scan_options, split at white space
ScanOptions == {<<>>, <<"-g">>, <<"--interface=eth0">>, <<"--interface=">>,
                <<"--interface=wlan0", "10.0.1.0/24">>, <<"10.0.0.0/24">>}

\* part.startswith("--interface=") and part.split("=")[1]
IsInterfaceOption(part) ==
    part \in {"--interface=eth0", "--interface=wlan0", "--interface="}
InterfaceOption(part) ==
    IF part = "--interface=eth0" THEN "eth0"
    ELSE IF part = "--interface=wlan0" THEN "wlan0"
    ELSE ""

\* "/" in part and "." in part
LooksLikeNetwork(part) == part \in {"10.0.0.0/24", "10.0.1.0/24"}

\* the loop of async_step_import over the parts i.. of scan_options, with
\* the interface and the network found so far
RECURSIVE ParseScanOptions(_, _, _)
ParseScanOptions(parts, i, found) ==
    IF i > Len(parts) THEN found
    ELSE IF IsInterfaceOption(parts[i])
    THEN ParseScanOptions(parts, i + 1,
            [found EXCEPT !.interface = InterfaceOption(parts[i])])
    ELSE IF LooksLikeNetwork(parts[i])
    THEN ParseScanOptions(parts, i + 1, [found EXCEPT !.network = parts[i]])
    ELSE ParseScanOptions(parts, i + 1, found)

\* a number left out of a configuration
NoNumber == -1

\* a legacy YAML platform configuration; NoNumber for a key left out.  Its
\* numbers passed cv.positive_int at most
ImportConfigs ==
    [scan_options : ScanOptions,
     interval_seconds : ScanIntervals \cup {NoNumber},
     consider_home : ConsiderHomes \cup {NoNumber}]

\* import_config.get(key, default)
GetOr(value, default) == IF value = NoNumber THEN default ELSE value

\* what the system does for one step: get_default_interface and
\* get_interface_network
FlowEnvs == [detect : IFACES \cup {None}, nets : NetTables]

InitFlow ==
    /\ NothingLoaded
    /\ scanner = EntryScanner
    /\ world = [vendor |-> [m \in MACS |-> "empty"],
                host |-> [i \in IPS |-> HostError]]
    /\ consider_home = 1
    /\ include_list = {}
    /\ exclude_list = {}

\* the state a flow step leaves alone; ret keeps the step and its input
FlowUnchanged ==
    UNCHANGED <<now, phase, scanner, world, consider_home, include_list,
                exclude_list, data, last_update_success, timer, inflight,
                stored, tracked_macs, created, last_seen, scan, seenAt,
                failedSince, firstLog, lastLog>>

\* ArpScanConfigFlow.async_step_user with the input of the form, while no
\* entry is configured
StepUser(user_input, env) ==
    /\ entry.type # "create_entry"
    /\ ret' = [op |-> "async_step_user", input |-> user_input, env |-> env]
    /\ LET iface == user_input.interface
           net == IF Truthy(user_input.network) THEN user_input.network
                  ELSE env.nets[iface]
       IN entry' =
            IF ~Truthy(net)
            THEN [type |-> "form", errors |-> "cannot_detect_network"]
            ELSE [type |-> "create_entry", source |-> "user",
                  data |-> [interface |-> iface, network |-> net],
                  options |-> [scan_interval |-> user_input.scan_interval,
                               consider_home |-> user_input.consider_home,
                               timeout |-> user_input.timeout]]
    /\ FlowUnchanged

\* ArpScanConfigFlow.async_step_import with a legacy YAML configuration,
\* while no entry is configured
StepImport(import_config, env) ==
    /\ entry.type # "create_entry"
    /\ ret' = [op |-> "async_step_import", input |-> import_config,
               env |-> env]
    /\ LET parts == import_config.scan_options
           parsed == IF \E i \in DOMAIN parts : IsInterfaceOption(parts[i])
                     THEN ParseScanOptions(parts, 1, [interface |-> None,
                                                      network |-> None])
                     ELSE [interface |-> None, network |-> None]
           iface == IF Truthy(parsed.interface) THEN parsed.interface
                    ELSE env.detect
           net == IF ~Truthy(parsed.network) /\ Truthy(iface)
                  THEN env.nets[iface] ELSE parsed.network
       IN entry' =
            IF ~Truthy(iface) \/ ~Truthy(net)
            THEN [type |-> "abort", reason |-> "cannot_detect_network"]
            ELSE [type |-> "create_entry", source |-> "import",
                  data |-> [interface |-> iface, network |-> net],
                  options |->
                     [scan_interval |-> GetOr(import_config.interval_seconds,
                                              DEFAULT_SCAN_INTERVAL),
                      consider_home |-> GetOr(import_config.consider_home,
                                              DEFAULT_CONSIDER_HOME),
                      timeout |-> DEFAULT_TIMEOUT]]
    /\ FlowUnchanged

\* ArpScanOptionsFlow.async_step_init with the input of the options form:
\* the options of the entry are replaced
StepOptionsInit(user_input) ==
    /\ entry.type = "create_entry"
    /\ ret' = [op |-> "async_step_init", input |-> user_input]
    /\ entry' = [entry EXCEPT !.source = "options",
                              !.options = [scan_interval |->
                                               user_input.scan_interval,
                                           consider_home |->
                                               user_input.consider_home,
                                           timeout |-> user_input.timeout]]
    /\ FlowUnchanged

NextFlow ==
    \/ \E user_input \in UserInputs, env \in FlowEnvs :
          StepUser(user_input, env)
    \/ \E import_config \in ImportConfigs, env \in FlowEnvs :
          StepImport(import_config, env)
    \/ \E user_input \in OptionsInputs : StepOptionsInit(user_input)

FlowSpec == InitFlow /\ [][NextFlow]_vars

\* ------------------------------------------------------------------ claims

\* C1: a MAC last contained in the snapshot published at t0 and absent from
\* the latest snapshot reads connected exactly while now <= t0 +
\* consider_home, whenever is_connected is read.
C1_GraceWindow ==
    (ret.op = "is_connected" /\ seenAt[ret.mac] # NoTime
        /\ ret.mac \notin DOMAIN data)
    => (ret.val = (now - seenAt[ret.mac] <= consider_home))

\* C2: is_connected returns the reference function: true when the MAC is a
\* key of the latest snapshot, else true when lastSeen is set and now -
\* lastSeen <= consider_home (boundary included), else false.
C2_IsConnectedReference ==
    ret.op = "is_connected"
    => (ret.val = (\/ ret.mac \in DOMAIN data
                   \/ (ret.before # NoTime /\ now - ret.before <= consider_home)))

\* C2 witness: a read of an absent MAC exactly at the end of its window
C2_Witness ==
    /\ ret.op = "is_connected"
    /\ ret.mac \notin DOMAIN data
    /\ ret.before # NoTime
    /\ now - ret.before = consider_home
    /\ ret.val

\* C3: reading is_connected or any other entity property leaves the record's
\* lastSeen as it was before the read.
C3_ReadLeavesLastSeen ==
    ret.op \in {"is_connected", "extra_state_attributes"}
    => last_seen[ret.mac] = ret.before

\* C4: the lastSeen of a tracked MAC is the time of the most recent cycle
\* whose snapshot contained the MAC.
C4_LastSeenIsLastObservation ==
    \A m \in tracked_macs : last_seen[m] = seenAt[m]

\* C5: a device last observed at t0, with only failed cycles since (empty
\* result or raised scan), reads connected exactly while now <= t0 +
\* consider_home.
C5_FailedCyclesAgeOut ==
    (ret.op = "is_connected" /\ seenAt[ret.mac] # NoTime
        /\ failedSince[ret.mac] = "failed")
    => (ret.val = (now - seenAt[ret.mac] <= consider_home))

\* C6: when the first cycle's scan cannot resolve its target, is denied raw
\* probing or fails in the transport, setup is aborted: no coordinator is
\* stored and no platform is set up.
C6_SetupFailsOnFirstCycleFailure ==
    (phase \in {"running", "not_ready"}
        /\ firstLog \in {"TargetUnresolved", "PermissionDenied", "ProbeFailed"})
    => (phase = "not_ready" /\ ~stored)

\* C7: after setup succeeded, every failed cycle (empty result or raised
\* error) is followed by the start of another scan cycle.
C7_FailedCycleRescheduled ==
    (phase = "running" /\ lastLog # "none" /\ inflight = 0) ~> (inflight > 0)

\* C7 witness: a scheduled cycle has failed by raising and none is running
C7_Witness ==
    /\ phase = "running"
    /\ lastLog = "raised"
    /\ ~last_update_success
    /\ inflight = 0

TargetUnresolved(sc, probe) ==
    \/ (sc.iface = None /\ probe.detect1 = None)
    \/ (sc.net = None
          /\ LET iface == IF sc.iface = None THEN probe.detect2 ELSE sc.iface
             IN iface = None \/ probe.nets[iface] = None)

\* C9: in each probe failure mode (target unresolved, PermissionError or any
\* other exception while sending) the probe returns an empty list and raises
\* nothing, and with an unresolved target it sends no request.
C9_ProbeFailsSoft ==
    scan.probe.pkt # "none"
    => LET unresolved == TargetUnresolved(scanner, scan.probe)
           sendFails == scan.probe.pkt = "ok" /\ scan.probe.srp # "ok"
       IN /\ (unresolved \/ sendFails)
                => (scan.res.devices = <<>> /\ ~scan.res.raised)
          /\ unresolved => ~scan.res.sent

\* C9 witness: a send that raised PermissionError with a resolved target
C9_Witness ==
    /\ scan.probe.pkt # "none"
    /\ ~TargetUnresolved(scanner, scan.probe)
    /\ scan.probe.pkt = "ok"
    /\ scan.probe.srp = "PermissionError"
    /\ scan.res.sent

\* C10: what the caller of a scan receives after a probe failure differs
\* from what it receives after a successful scan that found no hosts.
C10_FailureDistinguishable ==
    (scan.probe.pkt # "none"
        /\ (TargetUnresolved(scanner, scan.probe)
              \/ (scan.probe.pkt = "ok" /\ scan.probe.srp # "ok")))
    => <<scan.res.raised, scan.res.devices>> # <<FALSE, <<>> >>

\* C14: each mac that some snapshot has held has exactly one entity, created
\* by the update that first held it, and a mac no snapshot has held has none.
\* seenAt[m] is set exactly when a published snapshot held m
C14_OneRecordPerObservedMac ==
    \A m \in MACS : created[m] = (IF seenAt[m] # NoTime THEN 1 ELSE 0)

\* C15: no step removes a tracked mac's entity or loses its _last_seen
C15_RecordNeverDeleted ==
    [][\A m \in tracked_macs :
          /\ m \in tracked_macs'
          /\ created'[m] >= 1
          /\ last_seen[m] # NoTime => last_seen'[m] # NoTime]_vars

\* the devices of a list
DevicesOf(devices) == {devices[i] : i \in DOMAIN devices}

\* C11: the snapshot async_update_data returns holds exactly the scanned
\* devices whose IP is on the include list when that list is not empty (the
\* exclude list is then ignored), else exactly those whose IP is not on the
\* exclude list when that is not empty, else all of them; only the IP is
\* compared, never the hardware address.
C11_FilteredSnapshot ==
    (scan # NoScan /\ last_update_success) =>
        LET devs == DevicesOf(scan.res.devices)
            want == IF include_list # {}
                    THEN {d \in devs : d.ip \in include_list}
                    ELSE IF exclude_list # {}
                    THEN {d \in devs : d.ip \notin exclude_list}
                    ELSE devs
        IN /\ {data[k] : k \in DOMAIN data} = want
           /\ Cardinality(DOMAIN data) = Cardinality(want)

\* an included device is kept although its IP is excluded too, and a device
\* whose hardware address is on the include list is dropped
C11_Witness ==
    /\ scan # NoScan
    /\ include_list = {"10.0.0.1", "aa:01"}
    /\ "10.0.0.1" \in exclude_list
    /\ \E d \in DevicesOf(scan.res.devices) :
          d.ip = "10.0.0.1" /\ d.mac \in DOMAIN data
    /\ \E d \in DevicesOf(scan.res.devices) :
          d.mac = "aa:01" /\ d.mac \notin DOMAIN data

\* C12: filtering the devices of a returned snapshot again with the same
\* lists returns the same snapshot.
C12_FilterIdempotent ==
    ret.op = "async_update_data" => ret.val = data

\* a snapshot that kept one of the two scanned devices was filtered again
C12_Witness ==
    /\ ret.op = "async_update_data"
    /\ Cardinality(DOMAIN data) = 1
    /\ Len(scan.res.devices) = 2

\* the addresses of HWADDRS that are written in lower case
LowerCaseAddrs == {"aa:01", "bb:02"}

\* C19: every entry (k, d) of a returned snapshot has k = d.mac, written in
\* lower case, so responses whose addresses differ only in letter case
\* share one entry, and the entity created for k finds d under its own key.
C19_SnapshotKeys ==
    \A k \in DOMAIN data :
        /\ k = data[k].mac
        /\ k \in LowerCaseAddrs
        /\ EntityKey(k) \in DOMAIN data
        /\ data[EntityKey(k)] = data[k]

\* one host answered twice, in upper and in lower case, and has one entry
C19_Witness ==
    /\ scan # NoScan
    /\ Len(scan.probe.answered) = 2
    /\ {scan.probe.answered[i].hwsrc : i \in 1..2} = {"aa:01", "AA:01"}
    /\ DOMAIN data = {"aa:01"}

\* two hardware addresses that are equal up to letter case
SameHost(a, b) == a = b \/ {a, b} = {"aa:01", "AA:01"}

\* the first response of the host with the address hw
FirstFrom(answered, hw) ==
    CHOOSE i \in DOMAIN answered :
        /\ SameHost(answered[i].hwsrc, hw)
        /\ \A j \in 1..(i - 1) : ~SameHost(answered[j].hwsrc, hw)

\* C13: the list one probe cycle returns holds one device per hardware
\* address that answered, letter case aside, with the IP of the first
\* response from that address; later responses from it change nothing.
C13_FirstResponseWins ==
    (scan # NoScan /\ scan.probe.pkt = "ok" /\ scan.probe.srp = "ok") =>
        LET answered == scan.probe.answered
            devices == scan.res.devices
        IN /\ \A i, j \in DOMAIN devices :
                  SameHost(devices[i].mac, devices[j].mac) => i = j
           /\ \A i \in DOMAIN answered :
                  \E d \in DevicesOf(devices) :
                     /\ SameHost(d.mac, answered[i].hwsrc)
                     /\ d.ip = answered[FirstFrom(answered,
                                                  answered[i].hwsrc)].psrc
           /\ \A d \in DevicesOf(devices) :
                  \E i \in DOMAIN answered : SameHost(d.mac, answered[i].hwsrc)

\* one host answered twice, from two IPs and in two letter cases
C13_Witness ==
    /\ scan # NoScan
    /\ scan.probe.answered = <<[hwsrc |-> "AA:01", psrc |-> "10.0.0.2"],
                               [hwsrc |-> "aa:01", psrc |-> "10.0.0.1"]>>
    /\ Len(scan.res.devices) = 1
    /\ scan.res.devices[1].ip = "10.0.0.2"

\* C16: the vendor of every device of a snapshot is a non-empty string, and
\* it is "Unknown" when there is no OUI database, when the database has no
\* match or an empty value for the mac, and when the query raises; a failed
\* vendor lookup does not make the scan raise.
C16_VendorNeverEmpty ==
    /\ (scan # NoScan /\ scan.probe.pkt = "ok") => ~scan.res.raised
    /\ \A k \in DOMAIN data :
          /\ data[k].vendor \notin {None, ""}
          /\ (~scanner.oui \/ world.vendor[k] \in {"raise", "empty", ""})
                => data[k].vendor = "Unknown"

\* the OUI query raised for a device of the snapshot
C16_Witness ==
    /\ scanner.oui
    /\ world.vendor["aa:01"] = "raise"
    /\ "aa:01" \in DOMAIN data
    /\ data["aa:01"].vendor = "Unknown"

\* C17: with resolve_hostnames off no reverse lookup is made and every
\* device's hostname is None; with it on, a lookup that fails gives the
\* device the hostname None and the scan still returns a device for every
\* host that answered.
C17_HostnameLookupSoft ==
    scan # NoScan =>
        LET devs == DevicesOf(scan.res.devices)
            answered == scan.probe.answered
        IN /\ ~scanner.resolve_hostnames =>
                  /\ scan.lookups = <<>>
                  /\ \A d \in devs : d.hostname = None
           /\ scanner.resolve_hostnames =>
                  /\ \A d \in devs :
                        world.host[d.ip] = HostError => d.hostname = None
                  /\ ~scan.res.raised =>
                        \A i \in DOMAIN answered :
                           \E d \in devs : SameHost(d.mac, answered[i].hwsrc)

\* two hosts answered and the reverse lookup failed for both
C17_Witness ==
    /\ scan # NoScan
    /\ scanner.resolve_hostnames
    /\ world.host["10.0.0.1"] = HostError
    /\ Len(scan.lookups) = 2
    /\ Len(scan.res.devices) = 2
    /\ \A i \in 1..2 : scan.res.devices[i].hostname = None

\* C18: every config entry the user form, the options form or the YAML
\* import creates has its scan interval in [5, 300] s, its consider_home in
\* [10, 600] s and its timeout in [0.5, 10.0] s.
C18_OptionsInRange ==
    entry.type = "create_entry" =>
        /\ InRange(entry.options.scan_interval, ScanIntervalMin,
                   ScanIntervalMax)
        /\ InRange(entry.options.consider_home, ConsiderHomeMin,
                   ConsiderHomeMax)
        /\ InRange(entry.options.timeout, TimeoutMin, TimeoutMax)

\* C20: a read of is_connected, also one made while a scan runs in the
\* executor, sees one published snapshot: when the mac is in the snapshot the
\* read answers from, the _last_seen it finds is not older than that
\* snapshot and the read returns True; when it is not, the read answers
\* from the _last_seen it finds alone.  seenAt[m] is the time the latest
\* snapshot holding m was published.
C20_ReadSeesOneSnapshot ==
    ret.op = "is_connected" =>
        IF ret.mac \in DOMAIN data
        THEN /\ ret.val
             /\ seenAt[ret.mac] # NoTime
             /\ ret.before >= seenAt[ret.mac]
        ELSE ret.val = (/\ ret.before # NoTime
                        /\ now - ret.before <= consider_home)

\* a read while a scheduled scan runs, of a mac of a snapshot that replaced
\* an earlier one
C20_Witness ==
    /\ ret.op = "is_connected"
    /\ inflight = 1
    /\ phase = "running"
    /\ ret.mac \in DOMAIN data
    /\ seenAt[ret.mac] > 0
    /\ ret.before = seenAt[ret.mac]

\* the lines of a routing table that are default routes
DefaultRoutes(table) ==
    {i \in 2..Len(table.lines) :
        Len(table.lines[i]) >= 2 /\ table.lines[i][2] = "00000000"}

\* C21: get_default_interface returns the interface of the first line of
\* the routing table whose destination is 00000000; without such a line, or
\* when the table cannot be read, the first of eth0, ens18, enp0s3, wlan0
\* that exists; None when none exists.
C21_DefaultInterface ==
    ret.op = "get_default_interface" =>
        LET routes == IF ret.table.readable THEN DefaultRoutes(ret.table)
                      ELSE {}
            names == {i \in 1..4 :
                        <<"eth0", "ens18", "enp0s3", "wlan0">>[i]
                            \in ret.existing}
        IN IF routes # {}
           THEN \E i \in routes :
                   /\ \A j \in routes : i <= j
                   /\ ret.val = ret.table.lines[i][1]
           ELSE IF names # {}
           THEN \E i \in names :
                   /\ \A j \in names : i <= j
                   /\ ret.val = <<"eth0", "ens18", "enp0s3", "wlan0">>[i]
           ELSE ret.val = None

\* two default routes: the first one's interface is returned although the
\* other interface is the first fallback name that exists
C21_Witness ==
    /\ ret.op = "get_default_interface"
    /\ ret.table.readable
    /\ Len(ret.table.lines) = 3
    /\ ret.table.lines[2] = <<"wlan0", "00000000">>
    /\ ret.table.lines[3] = <<"eth0", "00000000">>
    /\ ret.existing = {"eth0"}
    /\ ret.val = "wlan0"

\* an IP address with every dot written as a hyphen
IpWithDashes(ip) == IF ip = "10.0.0.1" THEN "10-0-0-1" ELSE "10-0-0-2"

\* C22: for a resolved name, _lookup_hostname returns the name when it has
\* no dot, else its first label, unless that label is the IP written with
\* hyphens for dots: then it returns the full name.
C22_ShortNameRule ==
    (scan # NoScan /\ scanner.resolve_hostnames) =>
        \A d \in DevicesOf(scan.res.devices) :
            LET h == world.host[d.ip]
            IN h # HostError =>
                  d.hostname = IF h[2] = "" THEN FullName(h)
                               ELSE IF h[1] = IpWithDashes(d.ip)
                               THEN FullName(h)
                               ELSE h[1]

\* one name resolved for two addresses: the full name for the address its
\* first label spells, the first label for the other
C22_Witness ==
    /\ scan # NoScan
    /\ Len(scan.res.devices) = 2
    /\ \E d \in DevicesOf(scan.res.devices) :
          d.ip = "10.0.0.1" /\ d.hostname = "10-0-0-1.isp.net"
    /\ \E d \in DevicesOf(scan.res.devices) :
          d.ip = "10.0.0.2" /\ d.hostname = "10-0-0-1"

\* C23: in every execution of _scan_sync a configured interface and a
\* configured network are used as they are, the resolver is called only for
\* the one that is not configured, and when neither is configured the
\* network used is the network of the interface used.
C23_ConfiguredTargetsFirst ==
    scan # NoScan =>
        /\ scanner.iface # None =>
              scan.target.iface = scanner.iface /\ scan.calls.detect = 0
        /\ scanner.net # None =>
              scan.target.net = scanner.net /\ scan.calls.nets = 0
        /\ (scanner.iface = None /\ scanner.net = None
              /\ Truthy(scan.target.iface) /\ Truthy(scan.target.net)) =>
              scan.target.net = scan.probe.nets[scan.target.iface]

\* C24: every tracked mac's entity has a _last_seen: an entity is created
\* only for a mac of the data current at its creation, and its constructor
\* sets _last_seen.
C24_LastSeenNeverNull ==
    \A m \in tracked_macs :
        /\ created[m] >= 1
        /\ seenAt[m] # NoTime
        /\ last_seen[m] # NoTime

\* an entity whose mac left the data and whose grace window is over
C24_Witness ==
    /\ ret.op = "is_connected"
    /\ ~ret.val
    /\ ret.mac \in tracked_macs
    /\ ret.mac \notin DOMAIN data
    /\ last_seen[ret.mac] # NoTime

\* C25: while the clock does not go back, in every step the _last_seen of
\* an entity that stays does not decrease and is not later than the clock.
C25_LastSeenMonotone ==
    [][\A m \in tracked_macs \cap tracked_macs' :
          /\ last_seen[m] <= last_seen'[m]
          /\ last_seen'[m] <= now']_vars

\* a read moved the _last_seen of an entity forward
C25_Witness ==
    /\ ret.op = "is_connected"
    /\ ret.before # NoTime
    /\ last_seen[ret.mac] > ret.before
    /\ last_seen[ret.mac] = now

\* the parts of a scan_options value
PartsOf(parts) == {parts[i] : i \in DOMAIN parts}

\* C26: every created entry has a non-empty interface and a non-empty
\* network; the user step with an empty network field and no detected
\* network for the chosen interface shows the form again with the error
\* cannot_detect_network; the import step aborts with cannot_detect_network
\* when YAML and detection give no interface, or give no network.
C26_EntryHasTarget ==
    /\ entry.type = "create_entry" =>
          /\ entry.data.interface \notin {None, ""}
          /\ entry.data.network \notin {None, ""}
    /\ (/\ ret.op = "async_step_user"
        /\ ret.input.network = ""
        /\ ret.env.nets[ret.input.interface] = None) =>
          entry = [type |-> "form", errors |-> "cannot_detect_network"]
    /\ (/\ ret.op = "async_step_import"
        /\ \/ /\ PartsOf(ret.input.scan_options)
                    \cap {"--interface=eth0", "--interface=wlan0"} = {}
               /\ ret.env.detect = None
           \/ /\ PartsOf(ret.input.scan_options)
                    \cap {"10.0.0.0/24", "10.0.1.0/24"} = {}
               /\ \A i \in IFACES : ret.env.nets[i] = None) =>
          entry = [type |-> "abort", reason |-> "cannot_detect_network"]

\* the import of a configuration whose --interface= names nothing: the
\* detected interface and its network make the entry
C26_Witness ==
    /\ ret.op = "async_step_import"
    /\ ret.input.scan_options = <<"--interface=">>
    /\ ret.env.detect = "wlan0"
    /\ entry.type = "create_entry"
    /\ entry.data = [interface |-> "wlan0", network |-> "10.0.1.0/24"]

====
